---- MODULE Spec2Model ----
(***************************************************************************)
(* Model of doc_manager.py: the abstract Document class, its two concrete  *)
(* subclasses PDFDocument and WordDocument, the polymorphic routine        *)
(* process_document, and the script's main block.                          *)
(*                                                                         *)
(* Python strings are TLA+ strings (concatenation is \o), so every message *)
(* and every content value is the literal text the code builds.  Standard  *)
(* output is the sequence of the lines written, one element per call of    *)
(* the output function.  Objects live in the sequence docs; an object's    *)
(* identity is its index.                                                  *)
(***************************************************************************)
EXTENDS Integers, Sequences, FiniteSets

VARIABLES
    docs,                   \* the Document objects constructed so far
    out,                    \* standard output: one string per line written
    pc,                     \* where the module's execution stands
    documents_to_process,   \* main's list (object ids)
    idx,                    \* main's for-loop position in that list
    hist                    \* the calls made so far, with what each emitted

vars == <<docs, out, pc, documents_to_process, idx, hist>>

----------------------------------------------------------------------------
(* Bounds *)

MaxDocs == 2     \* objects a caller of the module constructs
MaxCalls == 4    \* calls a caller of the module makes

Filenames == {"annual_report.pdf", "team_memo.docx"}

----------------------------------------------------------------------------
(* Python values *)

None == [type |-> "NoneType"]
Str(s) == [type |-> "str", val |-> s]

----------------------------------------------------------------------------
(* The class hierarchy *)

ClassNames == {"Document", "PDFDocument", "WordDocument"}
MethodNames == {"open", "save", "read"}

\* the methods a class body defines itself
OwnMethods(cls) ==
    IF cls = "Document" THEN {"open", "save", "read"} ELSE {"open", "save"}

\* the definitions decorated with @abstractmethod
AbstractDecls == {<<"Document", "open">>, <<"Document", "save">>}

\* method resolution: the class whose definition of m an instance of cls runs
Resolve(cls, m) == IF m \in OwnMethods(cls) THEN cls ELSE "Document"

AbstractMethodsNone(cls) == {}

\* ABCMeta's __abstractmethods__: the methods still abstract in cls
AbstractMethods(cls) ==
    {m \in MethodNames : <<Resolve(cls, m), m>> \in AbstractDecls}

InitContentEmpty(cls, filename) ==
    [cls |-> cls, filename |-> filename, _content |-> Str("")]

\* Document.__init__
Document_init(cls, filename) ==
    [cls |-> cls, filename |-> filename, _content |-> None]

\* cls(filename): ABC refuses a class that still has abstract methods
Instantiate(cls, filename) ==
    IF AbstractMethods(cls) # {}
    THEN [exc |-> "TypeError", made |-> FALSE, obj |-> None]
    ELSE [exc |-> "None", made |-> TRUE, obj |-> Document_init(cls, filename)]

----------------------------------------------------------------------------
(* Execution of code on one object.  A frame carries the object, the       *)
(* output printed so far, the exception raised (if any) and the methods    *)
(* entered; a statement is skipped once an exception is raised.            *)

Frame(self, o) == [self |-> self, out |-> o, exc |-> "None", trace |-> <<>>]

\* Stdout(s): one more line on standard output
Stdout(st, s) ==
    IF st.exc # "None" THEN st ELSE [st EXCEPT !.out = Append(@, s)]

Enter(st, name) == [st EXCEPT !.trace = Append(@, name)]

PDFPlaceholder == "This is the complex, binary-formatted content of a PDF file."
WordPlaceholder == "This is the rich-text, XML-based content of a Word document."
Suffix == "\n[Appended by processing script]"

PDFOpenKeep(st) ==
    LET s1 == Stdout(Enter(st, "PDFDocument.open"),
                    "Opening PDF '" \o st.self.filename
                        \o "' using a PDF reader library...")
    IN  IF st.self._content = None
        THEN [s1 EXCEPT !.self._content = Str(PDFPlaceholder)]
        ELSE s1

PDFDocument_open(st) ==
    LET s1 == Stdout(Enter(st, "PDFDocument.open"),
                    "Opening PDF '" \o st.self.filename
                        \o "' using a PDF reader library...")
    IN  [s1 EXCEPT !.self._content = Str(PDFPlaceholder)]

PDFSaveNeedsContent(st) ==
    IF st.self._content = None
    THEN [Enter(st, "PDFDocument.save") EXCEPT !.exc = "TypeError"]
    ELSE Stdout(Enter(st, "PDFDocument.save"),
               "Saving content to PDF '" \o st.self.filename
                   \o "' with specific PDF formatting...")

PDFDocument_save(st) ==
    Stdout(Enter(st, "PDFDocument.save"),
          "Saving content to PDF '" \o st.self.filename
              \o "' with specific PDF formatting...")

WordOpenPDFText(st) ==
    LET s1 == Stdout(Enter(st, "WordDocument.open"),
                    "Opening Word document '" \o st.self.filename
                        \o "' using a word processor library...")
    IN  [s1 EXCEPT !.self._content = Str(PDFPlaceholder)]

WordDocument_open(st) ==
    LET s1 == Stdout(Enter(st, "WordDocument.open"),
                    "Opening Word document '" \o st.self.filename
                        \o "' using a word processor library...")
    IN  [s1 EXCEPT !.self._content = Str(WordPlaceholder)]

WordDocument_save(st) ==
    Stdout(Enter(st, "WordDocument.save"),
          "Saving content to Word '" \o st.self.filename
              \o "' with specific Word formatting...")

\* the bodies of the abstract Document.open and Document.save: pass
Document_open(st) == Enter(st, "Document.open")
Document_save(st) == Enter(st, "Document.save")

ReadInverted(st) ==
    IF st.self._content # None
    THEN Stdout(Enter(st, "Document.read"),
               "Content for '" \o st.self.filename
                   \o "' is not loaded. Please open the document first.")
    ELSE Stdout(Enter(st, "Document.read"),
               "Reading content of '" \o st.self.filename
                   \o "':\n---\n" \o "None" \o "\n---")

ReadConsumes(st) ==
    IF st.self._content = None
    THEN Stdout(Enter(st, "Document.read"),
               "Content for '" \o st.self.filename
                   \o "' is not loaded. Please open the document first.")
    ELSE [Stdout(Enter(st, "Document.read"),
                "Reading content of '" \o st.self.filename
                    \o "':\n---\n" \o st.self._content.val \o "\n---")
            EXCEPT !.self._content = None]

Document_read(st) ==
    IF st.self._content = None
    THEN Stdout(Enter(st, "Document.read"),
               "Content for '" \o st.self.filename
                   \o "' is not loaded. Please open the document first.")
    ELSE Stdout(Enter(st, "Document.read"),
               "Reading content of '" \o st.self.filename
                   \o "':\n---\n" \o st.self._content.val \o "\n---")

\* doc.m(): dynamic dispatch on the object's class
Call(st, m) ==
    IF st.exc # "None" THEN st
    ELSE LET impl == Resolve(st.self.cls, m)
         IN  CASE m = "read" -> Document_read(st)
               [] m = "open" /\ impl = "PDFDocument" -> PDFDocument_open(st)
               [] m = "open" /\ impl = "WordDocument" -> WordDocument_open(st)
               [] m = "open" /\ impl = "Document" -> Document_open(st)
               [] m = "save" /\ impl = "PDFDocument" -> PDFDocument_save(st)
               [] m = "save" /\ impl = "WordDocument" -> WordDocument_save(st)
               [] m = "save" /\ impl = "Document" -> Document_save(st)

AppendPrepends(st) ==
    IF st.exc # "None" THEN st
    ELSE IF st.self._content.type = "str"
         THEN [st EXCEPT !.self._content = Str(Suffix \o @.val)]
         ELSE [st EXCEPT !.exc = "TypeError"]

\* doc._content += "\n[Appended by processing script]"
AppendSuffix(st) ==
    IF st.exc # "None" THEN st
    ELSE IF st.self._content.type = "str"
         THEN [st EXCEPT !.self._content = Str(@.val \o Suffix)]
         ELSE [st EXCEPT !.exc = "TypeError"]

ProcessNoOpen(st) ==
    LET s0 == Stdout(Enter(st, "process_document"),
                    "\n--- Processing document: " \o st.self.filename \o " ---")
        s2 == Call(s0, "read")
        s3 == AppendSuffix(s2)
        s4 == Call(s3, "save")
    IN  Stdout(s4, "--- Finished processing ---")

process_document(st) ==
    LET s0 == Stdout(Enter(st, "process_document"),
                    "\n--- Processing document: " \o st.self.filename \o " ---")
        s1 == Call(s0, "open")
        s2 == Call(s1, "read")
        s3 == AppendSuffix(s2)
        s4 == Call(s3, "save")
    IN  Stdout(s4, "--- Finished processing ---")

\* what a caller can do with an object
Run(op, st) ==
    IF op = "process_document" THEN process_document(st) ELSE Call(st, op)

Ops == {"open", "read", "save", "process_document"}

----------------------------------------------------------------------------
(* State *)

Init ==
    /\ docs = <<>>
    /\ out = <<>>
    /\ pc = "start"
    /\ documents_to_process = <<>>
    /\ idx = 1
    /\ hist = <<>>

\* the record of one call: what was called, on which object, the part of
\* the output it printed (out[from+1 .. to]), the exception it raised and
\* the methods it entered
Entry(op, cls, d, st, from) ==
    [op |-> op, cls |-> cls, doc |-> d, from |-> from, to |-> Len(st.out),
     exc |-> st.exc, trace |-> st.trace]

\* A caller that imported the module (__name__ is not "__main__")
Imported == pc \in {"start", "lib"}

\* cls(filename)
Construct(cls, filename) ==
    /\ Imported
    /\ Len(docs) < MaxDocs
    /\ Len(hist) < MaxCalls
    /\ LET r == Instantiate(cls, filename)
       IN  /\ docs' = IF r.made THEN Append(docs, r.obj) ELSE docs
           /\ hist' = Append(hist,
                  [op |-> "construct", cls |-> cls,
                   doc |-> IF r.made THEN Len(docs) + 1 ELSE 0,
                   from |-> Len(out), to |-> Len(out),
                   exc |-> r.exc, trace |-> <<>>])
    /\ pc' = "lib"
    /\ UNCHANGED <<out, documents_to_process, idx>>

\* docs[d].open(), .read(), .save() or process_document(docs[d])
Invoke(op, d) ==
    /\ Imported
    /\ Len(hist) < MaxCalls
    /\ LET st == Run(op, Frame(docs[d], out))
       IN  /\ docs' = [docs EXCEPT ![d] = st.self]
           /\ out' = st.out
           /\ hist' = Append(hist, Entry(op, docs[d].cls, d, st, Len(out)))
    /\ pc' = "lib"
    /\ UNCHANGED <<documents_to_process, idx>>

open(d) == Invoke("open", d)
read(d) == Invoke("read", d)
save(d) == Invoke("save", d)
process(d) == Invoke("process_document", d)

MainCreateReversed ==
    /\ pc = "start"
    /\ LET report == Instantiate("PDFDocument", "annual_report.pdf")
           memo == Instantiate("WordDocument", "team_memo.docx")
       IN  IF report.made /\ memo.made
           THEN /\ docs' = <<report.obj, memo.obj>>
                /\ documents_to_process' = <<2, 1>>
                /\ pc' = "loop"
           ELSE /\ pc' = "crashed"
                /\ UNCHANGED <<docs, documents_to_process>>
    /\ UNCHANGED <<out, idx, hist>>

\* main, steps 1 and 2: report, memo and the list of both
MainCreate ==
    /\ pc = "start"
    /\ LET report == Instantiate("PDFDocument", "annual_report.pdf")
           memo == Instantiate("WordDocument", "team_memo.docx")
       IN  IF report.made /\ memo.made
           THEN /\ docs' = <<report.obj, memo.obj>>
                /\ documents_to_process' = <<1, 2>>
                /\ pc' = "loop"
           ELSE /\ pc' = "crashed"
                /\ UNCHANGED <<docs, documents_to_process>>
    /\ UNCHANGED <<out, idx, hist>>

\* main, step 3: one iteration of the for loop
MainLoop ==
    /\ pc = "loop"
    /\ idx <= Len(documents_to_process)
    /\ LET d == documents_to_process[idx]
           st == process_document(Frame(docs[d], out))
       IN  /\ docs' = [docs EXCEPT ![d] = st.self]
           /\ out' = st.out
           /\ hist' = Append(hist,
                  Entry("process_document", docs[d].cls, d, st, Len(out)))
           /\ pc' = IF st.exc = "None" THEN "loop" ELSE "crashed"
    /\ idx' = idx + 1
    /\ UNCHANGED documents_to_process

\* main, step 4: the lines written after the loop, then the script ends
MainEncapsulation ==
    /\ pc = "loop"
    /\ idx > Len(documents_to_process)
    /\ LET report == docs[1]
           shown == IF report._content = None THEN "None"
                    ELSE report._content.val
       IN  out' = out \o
             << "\n--- Demonstrating Encapsulation ---",
                "Accessing the filename (public attribute): "
                    \o report.filename,
                "Trying to access _content (protected attribute): " \o shown,
                "The leading underscore is a convention telling developers not to modify this directly.",
                "Instead, we should use methods like open() and save() to interact with the object's state." >>
    /\ pc' = "exited"
    /\ UNCHANGED <<docs, documents_to_process, idx, hist>>

Next ==
    \/ \E cls \in ClassNames, filename \in Filenames : Construct(cls, filename)
    \/ \E d \in 1..Len(docs) : open(d)
    \/ \E d \in 1..Len(docs) : read(d)
    \/ \E d \in 1..Len(docs) : save(d)
    \/ \E d \in 1..Len(docs) : process(d)
    \/ MainCreate
    \/ MainLoop
    \/ MainEncapsulation

Spec == Init /\ [][Next]_vars

----------------------------------------------------------------------------
(* Observations on the call history *)

Last == hist[Len(hist)]

\* the lines a call wrote
Emitted(e) == SubSeq(out, e.from + 1, e.to)

\* t occurs in s
Contains(s, t) ==
    \E i \in 1..(Len(s) - Len(t) + 1) : SubSeq(s, i, i + Len(t) - 1) = t

\* the number of places where t occurs in s
Occurrences(s, t) ==
    Cardinality({i \in 1..(Len(s) - Len(t) + 1) :
                    SubSeq(s, i, i + Len(t) - 1) = t})

StartsWith(s, t) == Len(s) >= Len(t) /\ SubSeq(s, 1, Len(t)) = t

IsPrefix(s, t) == Len(s) <= Len(t) /\ SubSeq(t, 1, Len(s)) = s

RanOpen(e) ==
    \E k \in 1..Len(e.trace) :
        e.trace[k] \in {"PDFDocument.open", "WordDocument.open", "Document.open"}

\* open has run on object d in one of the first n calls
OpenedWithin(d, n) == \E j \in 1..n : hist[j].doc = d /\ RanOpen(hist[j])

Opened(d) == OpenedWithin(d, Len(hist))

\* the step is a call of op
IsCall(op) ==
    /\ Len(hist') = Len(hist) + 1
    /\ hist'[Len(hist')].op = op

PlaceholderOf(cls) ==
    IF cls = "PDFDocument"
    THEN "This is the complex, binary-formatted content of a PDF file."
    ELSE "This is the rich-text, XML-based content of a Word document."

OtherPlaceholderOf(cls) ==
    IF cls = "PDFDocument"
    THEN "This is the rich-text, XML-based content of a Word document."
    ELSE "This is the complex, binary-formatted content of a PDF file."

----------------------------------------------------------------------------
(* Claims *)

\* C1: when process_document(doc) returns, doc's content is the variant's
\* placeholder text immediately followed by the fixed suffix and nothing
\* else, whatever the content was before the call.
C1_ProcessResult ==
    (Len(hist) > 0 /\ Last.op = "process_document") =>
        docs[Last.doc]._content =
            [type |-> "str",
             val |-> PlaceholderOf(Last.cls)
                        \o "\n[Appended by processing script]"]

\* a Word document processed after an open and a read of it
C1_Witness ==
    /\ Len(hist) = 4
    /\ Last.op = "process_document"
    /\ Last.cls = "WordDocument"
    /\ hist[2].op = "open" /\ hist[2].doc = Last.doc
    /\ hist[3].op = "read" /\ hist[3].doc = Last.doc

\* C2: on a document on which open has never run, every read writes the
\* "not loaded" notice and never the content-framed message.
C2_ReadBeforeOpen ==
    \A i \in 1..Len(hist) :
        (hist[i].op = "read" /\ ~OpenedWithin(hist[i].doc, i)) =>
            /\ Emitted(hist[i]) =
                 << "Content for '" \o docs[hist[i].doc].filename
                      \o "' is not loaded. Please open the document first." >>
            /\ \A k \in (hist[i].from + 1)..hist[i].to :
                 ~Contains(out[k], "\n---\n")

\* a second read of a never-opened document, after a save of it
C2_Witness ==
    /\ Len(hist) >= 4
    /\ Last.op = "read"
    /\ ~Opened(Last.doc)
    /\ hist[Len(hist) - 1].op = "save"
    /\ hist[Len(hist) - 1].doc = Last.doc
    /\ hist[Len(hist) - 2].op = "read"
    /\ hist[Len(hist) - 2].doc = Last.doc

\* C3: open followed by read on an instance of variant V writes the
\* content-framed message whose content is V's placeholder text, and the
\* message does not contain the other variant's placeholder text.
C3_OpenThenRead ==
    \A i \in 1..(Len(hist) - 1) :
        (/\ hist[i].op = "open"
         /\ hist[i + 1].op = "read"
         /\ hist[i + 1].doc = hist[i].doc) =>
            /\ Emitted(hist[i + 1]) =
                 << "Reading content of '" \o docs[hist[i].doc].filename
                      \o "':\n---\n" \o PlaceholderOf(hist[i].cls)
                      \o "\n---" >>
            /\ \A k \in (hist[i + 1].from + 1)..hist[i + 1].to :
                 ~Contains(out[k], OtherPlaceholderOf(hist[i].cls))

\* both variants opened and then read
C3_Witness ==
    /\ Len(hist) = 4
    /\ \E i \in 1..3 :
         /\ hist[i].op = "open" /\ hist[i].cls = "WordDocument"
         /\ hist[i + 1].op = "read" /\ hist[i + 1].doc = hist[i].doc
         /\ docs[hist[i].doc]._content # None

IsDocEvent(s) ==
    \/ StartsWith(s, "Opening ")
    \/ StartsWith(s, "Reading content of ")
    \/ StartsWith(s, "Content for ")
    \/ StartsWith(s, "Saving content to ")

DemoEvents ==
    << "Opening PDF 'annual_report.pdf' using a PDF reader library...",
       "Reading content of 'annual_report.pdf':\n---\nThis is the complex, binary-formatted content of a PDF file.\n---",
       "Saving content to PDF 'annual_report.pdf' with specific PDF formatting...",
       "Opening Word document 'team_memo.docx' using a word processor library...",
       "Reading content of 'team_memo.docx':\n---\nThis is the rich-text, XML-based content of a Word document.\n---",
       "Saving content to Word 'team_memo.docx' with specific Word formatting..." >>

\* C4: the demonstration run writes its document events in the order PDF
\* open, PDF read, PDF save, Word open, Word read, Word save; nothing of the
\* Word document precedes the PDF save message and both reads are the
\* content-framed form.
C4_DemoOrder ==
    /\ pc \in {"loop", "exited", "crashed"} =>
           IsPrefix(SelectSeq(out, IsDocEvent), DemoEvents)
    /\ pc = "exited" => SelectSeq(out, IsDocEvent) = DemoEvents

C4_Witness == pc = "exited" /\ Len(out) = 15

\* C5: constructing the abstract Document fails and yields no object;
\* constructing a PDFDocument or a WordDocument yields an object with the
\* given name and absent content.
C5_Construction ==
    [][\A cls \in ClassNames, filename \in Filenames :
          Construct(cls, filename) =>
             IF cls = "Document"
             THEN /\ docs' = docs
                  /\ hist'[Len(hist')].exc = "TypeError"
             ELSE /\ docs' = Append(docs, [cls |-> cls, filename |-> filename,
                                           _content |-> [type |-> "NoneType"]])
                  /\ hist'[Len(hist')].exc = "None"]_vars

\* a refused Document() after a PDFDocument and before a WordDocument
C5_Witness ==
    /\ Len(hist) >= 3
    /\ Last.op = "construct" /\ Last.cls = "WordDocument" /\ Last.doc = 2
    /\ hist[Len(hist) - 1].op = "construct"
    /\ hist[Len(hist) - 1].cls = "Document"
    /\ hist[Len(hist) - 1].exc = "TypeError"
    /\ Len(docs) = 2

\* C6: a document's content is absent if and only if open has never run on
\* it (directly or inside process_document), and content that is present
\* never becomes absent again.
C6_ContentIffOpened ==
    /\ [](\A d \in 1..Len(docs) :
             (docs[d]._content = [type |-> "NoneType"]) <=> ~Opened(d))
    /\ [][\A d \in 1..Len(docs) :
             docs[d]._content # [type |-> "NoneType"] =>
                 docs'[d]._content # [type |-> "NoneType"]]_vars

\* one document opened and read and saved, another never opened
C6_Witness ==
    /\ Len(docs) = 2
    /\ Len(hist) = MaxCalls
    /\ docs[1]._content = None
    /\ docs[2]._content # None
    /\ Last.op \in {"read", "save"}
    /\ Last.doc = 2

\* C7: read changes nothing: the content and the name of every document
\* are the same after the call as before it.
C7_ReadFrame ==
    [][IsCall("read") => docs' = docs]_vars

\* a read of a document whose content carries the suffix
C7_Witness ==
    /\ Len(hist) >= 3
    /\ Last.op = "read"
    /\ docs[Last.doc]._content # None
    /\ Contains(docs[Last.doc]._content.val, "[Appended by processing script]")

\* C8: save only writes the variant's save message: it succeeds also when
\* content is absent and leaves content and name unchanged.
C8_SaveFrame ==
    [][IsCall("save") =>
          LET e == hist'[Len(hist')]
              name == docs[e.doc].filename
          IN  /\ docs' = docs
              /\ e.exc = "None"
              /\ SubSeq(out', e.from + 1, e.to) =
                   IF e.cls = "PDFDocument"
                   THEN << "Saving content to PDF '" \o name
                             \o "' with specific PDF formatting..." >>
                   ELSE << "Saving content to Word '" \o name
                             \o "' with specific Word formatting..." >>
              /\ Len(out') = e.to]_vars

\* a save of a PDF document whose content is absent
C8_Witness ==
    /\ Len(hist) >= 2
    /\ Last.op = "save"
    /\ Last.cls = "PDFDocument"
    /\ docs[Last.doc]._content = None
    /\ Last.exc = "None"

\* C9: open, read, save and process_document never raise; the append inside
\* process_document never meets absent content.
C9_NoError ==
    /\ pc # "crashed"
    /\ \A i \in 1..Len(hist) :
          hist[i].op \in Ops => hist[i].exc = "None"

\* process_document on a document that was never opened before
C9_Witness ==
    /\ Len(hist) >= 2
    /\ Last.op = "process_document"
    /\ ~OpenedWithin(Last.doc, Len(hist) - 1)
    /\ Last.exc = "None"

ProcessedBefore(d) ==
    \E i \in 1..Len(hist) : hist[i].op = "process_document" /\ hist[i].doc = d

\* C10: processing a document again leaves the content it had after the
\* first processing, the placeholder with exactly one suffix; open on a
\* document whose content carries the suffix resets it to the placeholder.
C10_NoAccumulation ==
    [][LET e == hist'[Len(hist')]
       IN  /\ (IsCall("process_document") /\ ProcessedBefore(e.doc)) =>
                 /\ docs'[e.doc]._content.val =
                      PlaceholderOf(e.cls) \o "\n[Appended by processing script]"
                 /\ Occurrences(docs'[e.doc]._content.val,
                                "\n[Appended by processing script]") = 1
           /\ (/\ IsCall("open")
               /\ docs[e.doc]._content # [type |-> "NoneType"]
               /\ Contains(docs[e.doc]._content.val,
                           "\n[Appended by processing script]")) =>
                 docs'[e.doc]._content =
                     [type |-> "str", val |-> PlaceholderOf(e.cls)]]_vars

\* a PDF document processed twice, then opened again
C10_Witness ==
    /\ Len(hist) = 4
    /\ hist[1].cls = "PDFDocument"
    /\ \A i \in 2..3 : hist[i].op = "process_document" /\ hist[i].doc = 1
    /\ hist[4].op = "open" /\ hist[4].doc = 1

====
